---- MODULE Spec2Model ----
(***************************************************************************)
(* Model of exceldiffy's Comparator (src/src/exceldiffy/comparator.py):    *)
(* calculate_pct_change and compare_dataframes.                            *)
(*                                                                         *)
(* A cell value is a record [t, n, d, s]:                                  *)
(*   t = "num"  : the number n/d (d > 0, lowest terms); table cells are    *)
(*                integers (d = 1), percentages may be fractions;          *)
(*   t = "str"  : the string s, a sequence of one-character strings;       *)
(*   t = "nan"  : numpy's nan, a float;                                    *)
(*   t = "none" : Python's None.                                           *)
(* Arithmetic is exact (floating-point rounding is not modelled).          *)
(* A table is [columns, rows]: the set of column names and the sequence    *)
(* of rows, each row a function from the column names to cell values.      *)
(* The DataFrame that compare_dataframes builds from its list of record    *)
(* dicts is represented by that list.  Column names are assumed to differ  *)
(* from the helper column name 'composite_key'.                            *)
(***************************************************************************)
EXTENDS Integers, Sequences, FiniteSets, TLC

VARIABLES df1, df2, key_columns, compare_columns, show_all, top_n,
          pc, index1, index2, common_keys, key_order, col_i, results,
          old_val, new_val, pct_result

vars == <<df1, df2, key_columns, compare_columns, show_all, top_n,
          pc, index1, index2, common_keys, key_order, col_i, results,
          old_val, new_val, pct_result>>

\* ------------------------------------------------------------------ values

Num(n) == [t |-> "num", n |-> n, d |-> 1, s |-> <<>>]

Str(s) == [t |-> "str", n |-> 0, d |-> 1, s |-> s]

NaN == [t |-> "nan", n |-> 0, d |-> 1, s |-> <<>>]

None == [t |-> "none", n |-> 0, d |-> 1, s |-> <<>>]

Sign(x) == IF x > 0 THEN 1 ELSE IF x < 0 THEN -1 ELSE 0

Abs(x) == IF x < 0 THEN -x ELSE x

RECURSIVE Gcd(_, _)
Gcd(a, b) == IF b = 0 THEN a ELSE Gcd(b, a % b)

\* the number n/d (d > 0) in lowest terms
Rat(n, d) ==
    LET g == Gcd(Abs(n), d)
    IN  [t |-> "num", n |-> n \div g, d |-> d \div g, s |-> <<>>]

\* pd.isna on a scalar
isna(v) == v.t \in {"nan", "none"}

\* pd.api.types.is_numeric_dtype(type(v)): int and float (nan is a float)
is_numeric_dtype(v) == v.t \in {"num", "nan"}

\* Python's v1 != v2 on scalars: nan differs from everything, itself included
NotEqual(v1, v2) ==
    IF v1.t = "nan" \/ v2.t = "nan" THEN TRUE
    ELSE IF v1.t # v2.t THEN TRUE
    ELSE IF v1.t = "num" THEN v1.n # v2.n \/ v1.d # v2.d
    ELSE IF v1.t = "str" THEN v1.s # v2.s
    ELSE FALSE

\* val2 - val1 on numeric values
Subtract(v2, v1) ==
    IF v1.t = "nan" \/ v2.t = "nan" THEN NaN
    ELSE Rat(v2.n * v1.d - v1.n * v2.d, v1.d * v2.d)

\* ------------------------------------------------------ calculate_pct_change

\* variant: divides by old instead of abs(old)
calculate_pct_change_no_abs(old, new) ==
    IF isna(old) \/ isna(new) THEN NaN
    ELSE IF old.n = 0 THEN None
    ELSE Rat(Sign(old.n) * (new.n * old.d - old.n * new.d) * 100 * old.d,
             old.d * new.d * Abs(old.n))

calculate_pct_change(old, new) ==
    IF isna(old) \/ isna(new) THEN NaN
    ELSE IF old.n = 0 THEN None
    ELSE Rat((new.n * old.d - old.n * new.d) * 100 * old.d,
             old.d * new.d * Abs(old.n))

\* ------------------------------------------------------------ composite key

Digit(k) == <<"0", "1", "2", "3", "4", "5", "6", "7", "8", "9">>[k + 1]

RECURSIVE Digits(_)
Digits(n) == IF n < 10 THEN <<Digit(n)>> ELSE Digits(n \div 10) \o <<Digit(n % 10)>>

\* astype(str) on one cell of a key column (integer cells, strings, nan, None)
AsStr(v) ==
    CASE v.t = "str"  -> v.s
      [] v.t = "nan"  -> <<"n", "a", "n">>
      [] v.t = "none" -> <<"N", "o", "n", "e">>
      [] OTHER        -> IF v.n < 0 THEN <<"-">> \o Digits(-v.n) ELSE Digits(v.n)

\* '|'.join(parts)
RECURSIVE Join(_)
Join(parts) ==
    IF Len(parts) = 0 THEN <<>>
    ELSE IF Len(parts) = 1 THEN parts[1]
    ELSE parts[1] \o <<"|">> \o Join(Tail(parts))

\* a cell of a row; a column the row lacks reads as nan (the guards of
\* compare_dataframes keep the code from reading such a cell)
Cell(row, col) == IF col \in DOMAIN row THEN row[col] ELSE NaN

\* df[key_columns].astype(str).agg('|'.join, axis=1) for one row
CompositeKey(row, kcols) ==
    Join([i \in 1..Len(kcols) |-> AsStr(Cell(row, kcols[i]))])

\* the 'composite_key' index of a table: one key per row
CompositeIndex(df, kcols) ==
    [i \in 1..Len(df.rows) |-> CompositeKey(df.rows[i], kcols)]

Range(f) == {f[i] : i \in DOMAIN f}

\* variant: the union of the two key sets
CommonKeys_union(i1, i2) == Range(i1) \cup Range(i2)

CommonKeys(i1, i2) == Range(i1) \cap Range(i2)

\* the orders in which a Python set of keys may be iterated
Orders(S) == {o \in [1..Cardinality(S) -> S] : Range(o) = S}

\* ------------------------------------------------------- compare_dataframes

\* variant: only table1 is checked for the key columns
key_columns_missing_df1_only ==
    \E i \in 1..Len(key_columns) : key_columns[i] \notin df1.columns

key_columns_missing ==
    \E i \in 1..Len(key_columns) :
        key_columns[i] \notin df1.columns \/ key_columns[i] \notin df2.columns

\* variant: only table1 is checked for the compare column
column_present_df1_only(col) == col \in df1.columns

column_present(col) == col \in df1.columns /\ col \in df2.columns

\* df.loc[key]: the rows of the table under the key, in table order
RECURSIVE RowsAt(_, _, _, _)
RowsAt(df, index, key, i) ==
    IF i > Len(df.rows) THEN <<>>
    ELSE (IF index[i] = key THEN <<df.rows[i]>> ELSE <<>>)
         \o RowsAt(df, index, key, i + 1)

Max(a, b) == IF a >= b THEN a ELSE b

\* variant: pairing stops at the shorter side
max_len_shorter(rows1, rows2) ==
    IF Len(rows1) <= Len(rows2) THEN Len(rows1) ELSE Len(rows2)

max_len(rows1, rows2) == Max(Len(rows1), Len(rows2))

\* variant: only None counts as missing
both_missing_none_only(val1, val2) == val1.t = "none" /\ val2.t = "none"

both_missing(val1, val2) == isna(val1) /\ isna(val2)

\* val2 - val1 raises for a string or None operand; the exception is swallowed
subtraction_raises(val1, val2) ==
    val1.t \in {"str", "none"} \/ val2.t \in {"str", "none"}

\* variant: operands swapped
absolute_change_swapped(val1, val2) == Subtract(val1, val2)

absolute_change(val1, val2) == Subtract(val2, val1)

\* variant: without show_all a pair with a missing side is skipped
PositionRecords_skip_missing(key, val1, val2, sa) ==
    IF both_missing(val1, val2)
    THEN IF sa THEN <<[key |-> key, before |-> val1, after |-> val2]>> ELSE <<>>
    ELSE IF sa \/ (~isna(val1) /\ ~isna(val2) /\ NotEqual(val1, val2))
         THEN IF is_numeric_dtype(val1) /\ is_numeric_dtype(val2)
                 /\ ~subtraction_raises(val1, val2)
              THEN <<[key |-> key, before |-> val1, after |-> val2,
                      absolute_change |-> absolute_change(val1, val2),
                      pct_change |-> calculate_pct_change(val1, val2)]>>
              ELSE <<[key |-> key, before |-> val1, after |-> val2]>>
         ELSE <<>>

\* the record(s) appended for one paired position: none or one
PositionRecords(key, val1, val2, sa) ==
    IF both_missing(val1, val2)
    THEN IF sa THEN <<[key |-> key, before |-> val1, after |-> val2]>> ELSE <<>>
    ELSE IF sa \/ NotEqual(val1, val2)
         THEN IF is_numeric_dtype(val1) /\ is_numeric_dtype(val2)
                 /\ ~subtraction_raises(val1, val2)
              THEN <<[key |-> key, before |-> val1, after |-> val2,
                      absolute_change |-> absolute_change(val1, val2),
                      pct_change |-> calculate_pct_change(val1, val2)]>>
              ELSE <<[key |-> key, before |-> val1, after |-> val2]>>
         ELSE <<>>

\* the loop over the paired positions i .. max_len of one key
RECURSIVE KeyRecords(_, _, _, _, _, _)
KeyRecords(key, rows1, rows2, col, sa, i) ==
    IF i > max_len(rows1, rows2) THEN <<>>
    ELSE LET val1 == IF i <= Len(rows1) THEN Cell(rows1[i], col) ELSE NaN
             val2 == IF i <= Len(rows2) THEN Cell(rows2[i], col) ELSE NaN
         IN  PositionRecords(key, val1, val2, sa)
             \o KeyRecords(key, rows1, rows2, col, sa, i + 1)

\* the loop over common_keys in the set's iteration order
RECURSIVE ColumnRecords(_, _, _, _, _, _, _, _)
ColumnRecords(d1, i1, d2, i2, order, col, sa, k) ==
    IF k > Len(order) THEN <<>>
    ELSE KeyRecords(order[k], RowsAt(d1, i1, order[k], 1),
                    RowsAt(d2, i2, order[k], 1), col, sa, 1)
         \o ColumnRecords(d1, i1, d2, i2, order, col, sa, k + 1)

\* variant: the records are cut to the first top_n
ResultEntry_truncated(records, tn) ==
    [data |-> SubSeq(records, 1, IF tn < Len(records) THEN tn ELSE Len(records)),
     top_n |-> tn]

ResultEntry(records, tn) == [data |-> records, top_n |-> tn]

\* one iteration of the loop over compare_columns
ProcessColumn(res, d1, i1, d2, i2, order, col, sa, tn) ==
    LET records == ColumnRecords(d1, i1, d2, i2, order, col, sa, 1)
    IN  IF records # <<>> THEN (col :> ResultEntry(records, tn)) @@ res ELSE res

EmptyResult == [c \in {} |-> ResultEntry(<<>>, 0)]

\* the loop over compare_columns from position j on
RECURSIVE RunColumns(_, _, _, _, _, _, _, _, _, _)
RunColumns(res, d1, i1, d2, i2, order, cols, sa, tn, j) ==
    IF j > Len(cols) THEN res
    ELSE RunColumns(IF column_present(cols[j])
                    THEN ProcessColumn(res, d1, i1, d2, i2, order, cols[j], sa, tn)
                    ELSE res,
                    d1, i1, d2, i2, order, cols, sa, tn, j + 1)

\* the value compare_dataframes returns for the tables and key columns of the
\* state, as a function of the remaining arguments and the iteration order
compare_dataframes(cols, sa, tn, order) ==
    IF key_columns_missing THEN EmptyResult
    ELSE RunColumns(EmptyResult, df1, CompositeIndex(df1, key_columns),
                    df2, CompositeIndex(df2, key_columns), order, cols, sa, tn, 1)

\* ------------------------------------------------------------------ inputs

\* rows of the two tables together
MaxRows == 3

\* rows of a table that is compared with itself
MaxSelfRows == 2

DefaultTopN == 100

chr(c) == <<c>>

Table(columns, rows) ==
    [columns |-> columns,
     rows |-> [i \in 1..Len(rows) |-> [c \in columns |-> rows[i][c]]]]

SeqsUpTo(S, n) == UNION {[1..k -> S] : k \in 1..n}

\* duplicate keys and value kinds: one key column, one compare column
ValueCells == {Num(0), Num(5), Num(7), NaN, None, Str(chr("x"))}

ValueRows == [id : {Num(1), Num(2)}, val : ValueCells]

\* missing columns and top_n: tables of four columns, some dropped
ColumnNames == {"id", "k2", "val", "txt"}

Schemas == {ColumnNames, ColumnNames \ {"k2"}, ColumnNames \ {"txt"},
            ColumnNames \ {"val"}}

WideRow(id, val, txt) ==
    [id |-> Num(id), k2 |-> Str(chr("a")), val |-> val, txt |-> Str(chr(txt))]

WideRows1 == {<<WideRow(1, Num(5), "x"), WideRow(2, Num(5), "x")>>}

WideRows2 == {<<WideRow(1, Num(5), "x"), WideRow(2, Num(5), "x")>>,
              <<WideRow(1, Num(7), "y"), WideRow(2, Num(7), "x")>>,
              <<WideRow(1, Num(5), "x"), WideRow(2, NaN, "y")>>,
              <<WideRow(2, Num(0), "x"), WideRow(3, Num(7), "y")>>}

KeyColumnChoices == {<<"id">>, <<"id", "k2">>, <<"k2", "id">>}

CompareColumnChoices == {<<"val">>, <<"txt">>, <<"val", "txt">>, <<"txt", "val">>}

TopNs == {0, 1, DefaultTopN}

\* key strings: two key columns whose values may contain the separator
KeyRows ==
    [id  : {Str(chr("a")), Str(<<"a", "|", "b">>), Num(1), Str(chr("1"))},
     k2  : {Str(chr("c")), Str(<<"b", "|", "c">>)},
     val : {Num(5), Num(7)}]

\* numeric changes: one row per table, one key
NumberCells == {Num(-4), Num(-2), Num(0), Num(3), Num(10), Num(20)}

\* arguments of calculate_pct_change
PctArgs == {Num(-4), Num(-2), Num(0), Num(3), Num(5), Num(100), Num(150),
            NaN, None}

NoTable == [columns |-> {}, rows |-> <<>>]

InitCall ==
    /\ pc = "start"
    /\ index1 = <<>> /\ index2 = <<>>
    /\ common_keys = {} /\ key_order = <<>>
    /\ col_i = 0
    /\ results = EmptyResult
    /\ old_val = None /\ new_val = None /\ pct_result = None

InitValues ==
    /\ \E n1 \in 1..(MaxRows - 1) : \E n2 \in 1..(MaxRows - n1) :
         \E r1 \in [1..n1 -> ValueRows], r2 \in [1..n2 -> ValueRows] :
            /\ df1 = Table({"id", "val"}, r1)
            /\ df2 = Table({"id", "val"}, r2)
    /\ key_columns = <<"id">>
    /\ compare_columns = <<"val">>
    /\ show_all \in BOOLEAN
    /\ top_n = DefaultTopN
    /\ InitCall

InitSelf ==
    /\ \E r \in SeqsUpTo(ValueRows, MaxSelfRows) :
            /\ df1 = Table({"id", "val"}, r)
            /\ df2 = df1
    /\ key_columns = <<"id">>
    /\ compare_columns = <<"val">>
    /\ show_all \in BOOLEAN
    /\ top_n = DefaultTopN
    /\ InitCall

InitColumns ==
    /\ \E r1 \in WideRows1, r2 \in WideRows2, s1 \in Schemas, s2 \in Schemas :
            /\ df1 = Table(s1, r1)
            /\ df2 = Table(s2, r2)
    /\ key_columns \in KeyColumnChoices
    /\ compare_columns \in CompareColumnChoices
    /\ show_all \in BOOLEAN
    /\ top_n \in TopNs
    /\ InitCall

InitKeys ==
    /\ \E r1 \in KeyRows, r2 \in KeyRows :
            /\ df1 = Table({"id", "k2", "val"}, <<r1>>)
            /\ df2 = Table({"id", "k2", "val"}, <<r2>>)
    /\ key_columns \in {<<"id", "k2">>, <<"k2", "id">>}
    /\ compare_columns = <<"val">>
    /\ show_all \in BOOLEAN
    /\ top_n = DefaultTopN
    /\ InitCall

InitNumbers ==
    /\ \E v1 \in NumberCells, v2 \in NumberCells :
            /\ df1 = Table({"id", "val"}, <<[id |-> Num(1), val |-> v1]>>)
            /\ df2 = Table({"id", "val"}, <<[id |-> Num(1), val |-> v2]>>)
    /\ key_columns = <<"id">>
    /\ compare_columns = <<"val">>
    /\ show_all \in BOOLEAN
    /\ top_n = DefaultTopN
    /\ InitCall

InitPct ==
    /\ pc = "pct"
    /\ old_val \in PctArgs /\ new_val \in PctArgs
    /\ pct_result = None
    /\ df1 = NoTable /\ df2 = NoTable
    /\ key_columns = <<>> /\ compare_columns = <<>>
    /\ show_all = FALSE /\ top_n = DefaultTopN
    /\ index1 = <<>> /\ index2 = <<>>
    /\ common_keys = {} /\ key_order = <<>>
    /\ col_i = 0
    /\ results = EmptyResult

Init ==
    InitValues \/ InitSelf \/ InitColumns \/ InitKeys \/ InitNumbers \/ InitPct

\* ----------------------------------------------------------------- actions

input_vars == <<df1, df2, key_columns, compare_columns, show_all, top_n,
                old_val, new_val>>

\* a key column is missing from a table: return {}
AbortMissingKey ==
    /\ pc = "start"
    /\ key_columns_missing
    /\ pc' = "done"
    /\ results' = EmptyResult
    /\ UNCHANGED <<input_vars, index1, index2, common_keys, key_order, col_i,
                   pct_result>>

\* composite keys, set_index, common_keys, results = {}
BuildIndex ==
    /\ pc = "start"
    /\ ~key_columns_missing
    /\ index1' = CompositeIndex(df1, key_columns)
    /\ index2' = CompositeIndex(df2, key_columns)
    /\ common_keys' = CommonKeys(index1', index2')
    /\ key_order' \in Orders(common_keys')
    /\ results' = EmptyResult
    /\ col_i' = 1
    /\ pc' = "columns"
    /\ UNCHANGED <<input_vars, pct_result>>

\* a compare column missing from a table: continue
SkipColumn ==
    /\ pc = "columns"
    /\ col_i <= Len(compare_columns)
    /\ ~column_present(compare_columns[col_i])
    /\ col_i' = col_i + 1
    /\ UNCHANGED <<input_vars, pc, index1, index2, common_keys, key_order,
                   results, pct_result>>

\* a compare column of both tables: collect its records, store them if any
CompareColumn ==
    /\ pc = "columns"
    /\ col_i <= Len(compare_columns)
    /\ column_present(compare_columns[col_i])
    /\ results' = ProcessColumn(results, df1, index1, df2, index2, key_order,
                                compare_columns[col_i], show_all, top_n)
    /\ col_i' = col_i + 1
    /\ UNCHANGED <<input_vars, pc, index1, index2, common_keys, key_order,
                   pct_result>>

\* return results
Return ==
    /\ pc = "columns"
    /\ col_i > Len(compare_columns)
    /\ pc' = "done"
    /\ UNCHANGED <<input_vars, index1, index2, common_keys, key_order, col_i,
                   results, pct_result>>

\* a call of calculate_pct_change(old_val, new_val)
CalculatePctChange ==
    /\ pc = "pct"
    /\ pct_result' = calculate_pct_change(old_val, new_val)
    /\ pc' = "pct_done"
    /\ UNCHANGED <<input_vars, index1, index2, common_keys, key_order, col_i,
                   results>>

Next ==
    \/ AbortMissingKey
    \/ BuildIndex
    \/ SkipColumn
    \/ CompareColumn
    \/ Return
    \/ CalculatePctChange

Spec == Init /\ [][Next]_vars

\* ------------------------------------------------------------------ claims

absent(col) == col \notin df1.columns \/ col \notin df2.columns

\* the composite keys of a table, computed from the call's arguments
KeysOf(df) == {CompositeKey(df.rows[i], key_columns) : i \in 1..Len(df.rows)}

\* the rows of a table under a composite key, in table order
Group(df, K) ==
    LET Under(r) == CompositeKey(r, key_columns) = K IN SelectSeq(df.rows, Under)

\* the records of a result column, empty when the column is not in the result
DataOf(res, col) == IF col \in DOMAIN res THEN res[col].data ELSE <<>>

Plain(rec) == DOMAIN rec = {"key", "before", "after"}

WithMetrics(rec) ==
    DOMAIN rec = {"key", "before", "after", "absolute_change", "pct_change"}

\* C1: when a key column is missing from table1 or from table2 the call
\* returns the empty mapping and processes no compare column, whatever the
\* other key columns and the compare columns are.
C1_MissingKeyColumnAborts ==
    (\E i \in 1..Len(key_columns) : absent(key_columns[i]))
        => /\ pc \in {"start", "done"}
           /\ col_i = 0
           /\ DOMAIN results = {}

C1_Witness ==
    /\ pc = "done"
    /\ key_columns = <<"id", "k2">>
    /\ "id" \in df1.columns \cap df2.columns
    /\ "k2" \in df1.columns /\ "k2" \notin df2.columns
    /\ compare_columns = <<"val", "txt">>
    /\ {"val", "txt"} \subseteq df1.columns \cap df2.columns
    /\ DOMAIN results = {}

\* C2: the key of every record of every result column is the composite key
\* of at least one row of table1 and of at least one row of table2; a key of
\* one table only appears in no record, for either value of show_all.
C2_RecordKeysAreCommon ==
    \A col \in DOMAIN results : \A j \in 1..Len(results[col].data) :
        /\ results[col].data[j].key \in KeysOf(df1)
        /\ results[col].data[j].key \in KeysOf(df2)

C2_Witness ==
    /\ pc = "done"
    /\ show_all
    /\ DOMAIN results # {}
    /\ KeysOf(df1) \ KeysOf(df2) # {}
    /\ KeysOf(df2) \ KeysOf(df1) # {}

\* the scenario of C3: table1 has id=1 twice (val 5, then 7), table2 once (val 7)
DuplicateScenario ==
    /\ df1 = Table({"id", "val"}, <<[id |-> Num(1), val |-> Num(5)],
                                    [id |-> Num(1), val |-> Num(7)]>>)
    /\ df2 = Table({"id", "val"}, <<[id |-> Num(1), val |-> Num(7)]>>)
    /\ key_columns = <<"id">>
    /\ compare_columns = <<"val">>

\* C3 as stated: in the scenario the record for the pair (7, missing) is in
\* result['val'].data only with show_all=true; with show_all=false the result
\* holds exactly one record (before=5, after=7), with show_all=true two.
C3_AsStated ==
    (DuplicateScenario /\ pc = "done")
        => /\ "val" \in DOMAIN results
           /\ results["val"].data[1].before = Num(5)
           /\ results["val"].data[1].after = Num(7)
           /\ Len(results["val"].data) = IF show_all THEN 2 ELSE 1

\* C3 amended: in the scenario the result holds exactly two records for both
\* values of show_all: (before=5, after=7), then (before=7, after=missing).
C3_TwoRecordsEitherWay ==
    (DuplicateScenario /\ pc = "done")
        => /\ "val" \in DOMAIN results
           /\ Len(results["val"].data) = 2
           /\ results["val"].data[1].before = Num(5)
           /\ results["val"].data[1].after = Num(7)
           /\ results["val"].data[2].before = Num(7)
           /\ isna(results["val"].data[2].after)

C3_Witness == DuplicateScenario /\ pc = "done" /\ ~show_all

\* C4: comparing a table whose composite keys are pairwise distinct with
\* itself, on key and compare columns of the table and with show_all=false,
\* returns the empty mapping, also when compared cells are missing values.
C4_SelfComparisonEmpty ==
    ( /\ pc = "done"
      /\ df1 = df2
      /\ ~show_all
      /\ Range(key_columns) \cup Range(compare_columns) \subseteq df1.columns
      /\ Cardinality(KeysOf(df1)) = Len(df1.rows) )
        => DOMAIN results = {}

C4_Witness ==
    /\ pc = "done"
    /\ df1 = df2
    /\ ~show_all
    /\ Len(df1.rows) = 2
    /\ Cardinality(KeysOf(df1)) = 2
    /\ df1.rows[1]["val"] = NaN
    /\ df1.rows[2]["val"] = None
    /\ DOMAIN results = {}

Without(cols, col) == LET Keep(c) == c # col IN SelectSeq(cols, Keep)

\* C5: with all key columns in both tables, a compare column C absent from
\* table1 or from table2 is not a key of the result, and the result is the
\* one of the call with C removed from compare_columns.
C5_AbsentCompareColumnSkipped ==
    (pc = "done" /\ \A i \in 1..Len(key_columns) : ~absent(key_columns[i]))
        => \A j \in 1..Len(compare_columns) :
              absent(compare_columns[j])
                => LET ref == compare_dataframes(
                                  Without(compare_columns, compare_columns[j]),
                                  show_all, top_n, key_order)
                   IN  /\ compare_columns[j] \notin DOMAIN results
                       /\ DOMAIN results = DOMAIN ref
                       /\ \A D \in DOMAIN results : results[D] = ref[D]

C5_Witness ==
    /\ pc = "done"
    /\ ~absent("id") /\ key_columns = <<"id">>
    /\ compare_columns = <<"txt", "val">>
    /\ "txt" \in df1.columns /\ "txt" \notin df2.columns
    /\ DOMAIN results = {"val"}

\* C6: calculate_pct_change(old, new) is missing (nan) when old or new is
\* missing, also for old = 0; otherwise None (not nan, not a number) when
\* old = 0; otherwise the number (new - old) / abs(old) * 100, whose sign is
\* the sign of new - old also for negative old.  (100, 150) gives 50 and
\* (0, 5) gives None.
C6_PctChange ==
    pc = "pct_done"
        => /\ (isna(old_val) \/ isna(new_val)) => pct_result = NaN
           /\ (~isna(old_val) /\ ~isna(new_val) /\ old_val = Num(0))
                 => pct_result = None /\ pct_result.t \notin {"nan", "num"}
           /\ (~isna(old_val) /\ ~isna(new_val) /\ old_val # Num(0))
                 => /\ pct_result.t = "num"
                    /\ pct_result.d > 0
                    /\ pct_result.n * Abs(old_val.n)
                         = (new_val.n - old_val.n) * 100 * pct_result.d
                    /\ Sign(pct_result.n) = Sign(new_val.n - old_val.n)
           /\ (old_val = Num(100) /\ new_val = Num(150)) => pct_result = Num(50)
           /\ (old_val = Num(0) /\ new_val = Num(5)) => pct_result = None

C6_Witness ==
    /\ pc = "pct_done"
    /\ old_val = Num(-4) /\ new_val = Num(-2)
    /\ pct_result = Num(50)

\* C7: top_n is carried in the result and filters nothing: the columns of the
\* result and the records of each column are those of the call with any other
\* top_n (0 and values below the number of records included), and every entry
\* carries the caller's top_n.
C7_TopNIsOnlyCarried ==
    pc = "done"
        => /\ \A C \in DOMAIN results : results[C].top_n = top_n
           /\ \A tn \in TopNs :
                 LET ref == compare_dataframes(compare_columns, show_all, tn,
                                               key_order)
                 IN  /\ DOMAIN ref = DOMAIN results
                     /\ \A C \in DOMAIN results :
                           /\ ref[C].data = results[C].data
                           /\ ref[C].top_n = tn

C7_Witness ==
    /\ pc = "done"
    /\ top_n = 1
    /\ \E C \in DOMAIN results : Len(results[C].data) > top_n

\* the value of a table at position i of a key's rows, missing past the end
Side(rows, col, i) == IF i <= Len(rows) THEN rows[i][col] ELSE NaN

\* the records of a result column under one key, in order
RecordsUnder(col, K) ==
    LET Under(rec) == rec.key = K IN SelectSeq(DataOf(results, col), Under)

ChangeScenario ==
    /\ df1 = Table({"id", "val"}, <<[id |-> Num(1), val |-> Num(10)]>>)
    /\ df2 = Table({"id", "val"}, <<[id |-> Num(1), val |-> Num(20)]>>)
    /\ key_columns = <<"id">>
    /\ compare_columns = <<"val">>

\* C9: change metrics are decided per value pair: a record of two numeric
\* values carries absolute_change = after - before and pct_change =
\* calculate_pct_change(before, after); a record with a non-numeric value and
\* a record of a both-missing pair carry neither field.  In the scenario the
\* result is one record: before=10, after=20, absolute_change=10,
\* pct_change=100.
C9_MetricsPerValuePair ==
    /\ \A col \in DOMAIN results : \A j \in 1..Len(results[col].data) :
          LET rec == results[col].data[j] IN
          IF isna(rec.before) /\ isna(rec.after) THEN Plain(rec)
          ELSE IF rec.before.t \in {"num", "nan"} /\ rec.after.t \in {"num", "nan"}
          THEN /\ WithMetrics(rec)
               /\ rec.absolute_change =
                     IF isna(rec.before) \/ isna(rec.after) THEN NaN
                     ELSE Num(rec.after.n - rec.before.n)
               /\ rec.pct_change = calculate_pct_change(rec.before, rec.after)
          ELSE Plain(rec)
    /\ (ChangeScenario /\ pc = "done")
          => /\ DOMAIN results = {"val"}
             /\ results["val"].data =
                   <<[key |-> chr("1"), before |-> Num(10), after |-> Num(20),
                      absolute_change |-> Num(10), pct_change |-> Num(100)]>>

C9_Witness ==
    /\ pc = "done"
    /\ "val" \in DOMAIN results
    /\ Len(results["val"].data) = 2
    /\ WithMetrics(results["val"].data[1])
    /\ results["val"].data[1].pct_change = Num(40)
    /\ Plain(results["val"].data[2])
    /\ results["val"].data[2].after.t = "str"

\* C10: a row of table1 and a row of table2 that produce a record under one
\* composite key agree on the string form of every key column.
C10_AlignmentFaithful ==
    \A col \in DOMAIN results : \A j \in 1..Len(results[col].data) :
        LET K == results[col].data[j].key IN
        \A a \in 1..Len(Group(df1, K)), b \in 1..Len(Group(df2, K)) :
        \A i \in 1..Len(key_columns) :
            AsStr(Group(df1, K)[a][key_columns[i]])
                = AsStr(Group(df2, K)[b][key_columns[i]])

====
